---- MODULE Spec2Model ----
(***************************************************************************)
(* The enhanced resume-screening workflow of                               *)
(* src/src/agents/graph/graph_enhanced.py: the graph that                  *)
(* create_enhanced_screening_graph builds (14 nodes, 13 static edges and   *)
(* one conditional edge), the router should_reanalyze, and runs of the     *)
(* compiled graph over the AgentState of src/src/state/state.py: the two   *)
(* fields the router reads (quality_check, reanalysis_count), the three    *)
(* operator.add accumulators (candidates, errors, conversation_history)    *)
(* and one overwrite list (experience_scores).                             *)
(*                                                                         *)
(* A run alternates two kinds of step.  A node step runs the node at pc    *)
(* and merges its update; after quality_checker the branch step evaluates  *)
(* should_reanalyze on the merged state and moves pc along the path map.   *)
(* The node functions themselves (src.agents.nodes) are not part of the    *)
(* graph module; their updates, and the per-node fault policy, are         *)
(* modelled from the specification: only quality_checker writes            *)
(* quality_check, no node writes reanalysis_count, and no node of the      *)
(* retry span writes an accumulator.                                       *)
(***************************************************************************)
EXTENDS Integers, Sequences, FiniteSets, TLC

\* ---------------------------------------------------------------- bounds

\* Largest integer a caller-supplied reanalysis_count takes in the router
\* harness (values -1 .. MaxCount are drawn).
MaxCount == 3

\* History counters (visits per node, retries) saturate at this value, so
\* that a run that loops for ever is a finite cycle of the state graph.
MaxVisits == 4

\* ------------------------------------------------------- program constants

\* graph_enhanced.py:54   reanalysis_count < 2
ReanalysisCeiling == 2

Min(a, b) == IF a < b THEN a ELSE b

\* --------------------------------------------------------- Python values

\* A field of the state dict: the key is missing, holds None, or holds a
\* value.  Both fields have the same shape so that states stay comparable.
Absent == [tag |-> "absent", val |-> 0, needs_reanalysis |-> "absent"]
None == [tag |-> "None", val |-> 0, needs_reanalysis |-> "absent"]
IntValue(n) == [tag |-> "int", val |-> n, needs_reanalysis |-> "absent"]
\* A dict with needs_reanalysis missing ("absent") or holding True, False
\* or None.
DictValue(needs) == [tag |-> "dict", val |-> 0, needs_reanalysis |-> needs]

\* dict.get(key, default): the default only when the key is missing; a key
\* holding None yields None.
DictGet(field, default) == IF field.tag = "absent" THEN default ELSE field

\* AgentState.quality_check : dict | None   (state.py:50)
QualityCheckValues ==
    {Absent, None} \cup {DictValue(n) : n \in {"absent", "True", "False", "None"}}

\* AgentState.reanalysis_count : int | None   (state.py:51)
ReanalysisCountValues ==
    {Absent, None} \cup {IntValue(n) : n \in -1 .. MaxCount}

\* ------------------------------------------------------------- the router

\* A router that ignores the quality check: retries while the counter is
\* below the ceiling.
should_reanalyze_eager(state) ==
    LET reanalysis_count == DictGet(state.reanalysis_count, IntValue(0))
    IN  IF state.quality_check.tag = "None"
        THEN "AttributeError"
        ELSE IF reanalysis_count.tag = "None"
             THEN "TypeError"
             ELSE IF reanalysis_count.val < ReanalysisCeiling
                  THEN "reanalyze"
                  ELSE "continue"

\* A router without the ceiling: retries whenever needs_reanalysis is set.
should_reanalyze_unbounded(state) ==
    LET quality_check == DictGet(state.quality_check, DictValue("absent"))
    IN  IF quality_check.tag = "None"
        THEN "AttributeError"
        ELSE IF quality_check.needs_reanalysis = "True"
             THEN "reanalyze"
             ELSE "continue"

\* should_reanalyze(state): "reanalyze" or "continue", or the exception the
\* evaluation raises.
\*   quality_check = state.get("quality_check", {})
\*   needs_reanalysis = quality_check.get("needs_reanalysis", False)
\*   reanalysis_count = state.get("reanalysis_count", 0)
\*   if needs_reanalysis and reanalysis_count < 2: return "reanalyze"
\*   else: return "continue"
should_reanalyze(state) ==
    LET quality_check == DictGet(state.quality_check, DictValue("absent"))
        reanalysis_count == DictGet(state.reanalysis_count, IntValue(0))
    IN  IF quality_check.tag = "None"
        THEN "AttributeError"            \* None.get(...)
        ELSE IF quality_check.needs_reanalysis = "True"
             THEN IF reanalysis_count.tag = "None"
                  THEN "TypeError"       \* None < 2
                  ELSE IF reanalysis_count.val < ReanalysisCeiling
                       THEN "reanalyze"
                       ELSE "continue"
             ELSE "continue"             \* False, None or missing: falsy

Outcomes == {"reanalyze", "continue"}
RouterErrors == {"AttributeError", "TypeError"}

\* -------------------------------------------------------------- the graph

END == "__end__"
ABORTED == "__aborted__"

\* workflow.add_node(...), in the order of the calls
Nodes ==
    << "job_analyzer", "resume_parser", "tool_coordinator",
       "candidate_enricher", "skill_matcher_enhanced",
       "experience_analyzer_enhanced", "education_verifier", "scorer",
       "quality_checker", "bias_detector", "salary_estimator", "ats_scorer",
       "report_generator", "question_generator" >>

NodeSet == {Nodes[i] : i \in 1 .. Len(Nodes)}

\* workflow.set_entry_point("job_analyzer")
EntryPoints == {"job_analyzer"}

EntryPoint == CHOOSE n \in EntryPoints : TRUE

\* The edges with a second edge out of candidate_enricher.
EdgesFanOut ==
    { <<"job_analyzer", "resume_parser">>,
      <<"resume_parser", "tool_coordinator">>,
      <<"tool_coordinator", "candidate_enricher">>,
      <<"candidate_enricher", "skill_matcher_enhanced">>,
      <<"candidate_enricher", "experience_analyzer_enhanced">>,
      <<"skill_matcher_enhanced", "experience_analyzer_enhanced">>,
      <<"experience_analyzer_enhanced", "education_verifier">>,
      <<"education_verifier", "scorer">>,
      <<"scorer", "quality_checker">>,
      <<"bias_detector", "salary_estimator">>,
      <<"salary_estimator", "ats_scorer">>,
      <<"ats_scorer", "report_generator">>,
      <<"report_generator", "question_generator">>,
      <<"question_generator", "__end__">> }

\* The edges with report_generator misspelt in the edge that leads to it.
EdgesDangling ==
    { <<"job_analyzer", "resume_parser">>,
      <<"resume_parser", "tool_coordinator">>,
      <<"tool_coordinator", "candidate_enricher">>,
      <<"candidate_enricher", "skill_matcher_enhanced">>,
      <<"skill_matcher_enhanced", "experience_analyzer_enhanced">>,
      <<"experience_analyzer_enhanced", "education_verifier">>,
      <<"education_verifier", "scorer">>,
      <<"scorer", "quality_checker">>,
      <<"bias_detector", "salary_estimator">>,
      <<"salary_estimator", "ats_scorer">>,
      <<"ats_scorer", "report_generater">>,
      <<"report_generator", "question_generator">>,
      <<"question_generator", "__end__">> }

\* workflow.add_edge(a, b)
Edges ==
    { <<"job_analyzer", "resume_parser">>,
      <<"resume_parser", "tool_coordinator">>,
      <<"tool_coordinator", "candidate_enricher">>,
      <<"candidate_enricher", "skill_matcher_enhanced">>,
      <<"skill_matcher_enhanced", "experience_analyzer_enhanced">>,
      <<"experience_analyzer_enhanced", "education_verifier">>,
      <<"education_verifier", "scorer">>,
      <<"scorer", "quality_checker">>,
      <<"bias_detector", "salary_estimator">>,
      <<"salary_estimator", "ats_scorer">>,
      <<"ats_scorer", "report_generator">>,
      <<"report_generator", "question_generator">>,
      <<"question_generator", END>> }

\* workflow.add_conditional_edges("quality_checker", should_reanalyze, {...})
ConditionalSource == "quality_checker"

\* A path map whose continue edge skips bias_detector.
PathMapSkipping ==
    [reanalyze |-> "experience_analyzer_enhanced", continue |-> "salary_estimator"]

\* A path map whose retry edge points at the decision node itself.
PathMapSelfLoop ==
    [reanalyze |-> "quality_checker", continue |-> "bias_detector"]

PathMap ==
    [reanalyze |-> "experience_analyzer_enhanced", continue |-> "bias_detector"]

ConditionalEdges == {<<ConditionalSource, PathMap[o]>> : o \in Outcomes}

\* Every edge of the compiled graph.
AllEdges == Edges \cup ConditionalEdges

\* The static successors of a node.
Successors(n) == {e[2] : e \in {d \in Edges : d[1] = n}}

\* ------------------------------------------------------------ AgentState

\* Largest number of resumes a run parses (candidates 1 .. MaxDocs).
MaxDocs == 2

\* The fields of AgentState the model follows.
FieldNames ==
    {"quality_check", "reanalysis_count", "experience_scores",
     "candidates", "errors", "conversation_history"}

\* A merge that appends to every list-valued field, whatever its annotation.
AccumulatorFieldsByType ==
    {"candidates", "errors", "conversation_history", "experience_scores"}

\* The fields annotated with operator.add:
\*   candidates: Annotated[list[dict], operator.add]
\*   conversation_history: Annotated[list[BaseMessage], operator.add]
\*   errors: Annotated[list[str], operator.add]
AccumulatorFields == {"candidates", "errors", "conversation_history"}

\* A merge that replaces every field the update names.
MergeOverwriting(current, update) ==
    [f \in DOMAIN current |->
        IF f \in DOMAIN update THEN update[f] ELSE current[f]]

\* The state after an update is merged: a field the update names is
\* replaced, or, when it is annotated with operator.add, becomes
\* current + update; a field the update does not name is kept.
Merge(current, update) ==
    [f \in DOMAIN current |->
        IF f \in DOMAIN update
        THEN IF f \in AccumulatorFields
             THEN current[f] \o update[f]
             ELSE update[f]
        ELSE current[f]]

\* The update that names no field.
NoUpdate == << >>

\* The list fields of a state in which no node has run: the accumulators
\* start empty and experience_scores is unpopulated (modelled as empty).
EmptyLists ==
    [experience_scores |-> << >>, candidates |-> << >>, errors |-> << >>,
     conversation_history |-> << >>]

\* A state from the two fields the router reads and the four list fields.
MakeState(q, c, lists) ==
    [quality_check |-> q, reanalysis_count |-> c,
     experience_scores |-> lists.experience_scores,
     candidates |-> lists.candidates, errors |-> lists.errors,
     conversation_history |-> lists.conversation_history]

\* ------------------------------------------------------------------ state

VARIABLES
    pc,         \* the node to run next, END, or ABORTED after an exception
    phase,      \* "node": run pc;  "branch": evaluate the router after pc
    state,      \* the AgentState of the run
    outcome,    \* what the last router evaluation returned ("none" before)
    tolerant,   \* the nodes declared collect-and-continue
    other,      \* a second invocation of the compiled graph: its pc, phase, state, outcome
    visits,     \* history: times each node has run (saturating)
    retries,    \* history: "reanalyze" outcomes emitted so far (saturating)
    allNeeds,   \* history: every quality_checker run so far flagged needs_reanalysis
    decided,    \* history: <<state, outcome>> of every router evaluation
    before,     \* history: the state before the last step
    lastUpdate, \* history: the update merged by the last step
    event       \* history: the kind of the last step

vars ==
    <<pc, phase, state, outcome, tolerant, other, visits, retries, allNeeds,
      decided, before, lastUpdate, event>>

Bump(n) == Min(n + 1, MaxVisits)

\* The state a run starts from: only the inputs are populated; the counter
\* is missing or holds the 0 the caller initialised it with.
InitialStates ==
    {MakeState(Absent, c, EmptyLists) : c \in {Absent, IntValue(0)}}

\* No second invocation.
NoRun ==
    [pc |-> "__none__", phase |-> "node",
     state |-> MakeState(Absent, Absent, EmptyLists), outcome |-> "none"]

Init ==
    /\ pc = EntryPoint
    /\ phase = "node"
    /\ state \in InitialStates
    /\ outcome = "none"
    /\ tolerant = {}
    /\ other = NoRun
    /\ visits = [n \in NodeSet |-> 0]
    /\ retries = 0
    /\ allNeeds = TRUE
    /\ decided = {}
    /\ before = state
    /\ lastUpdate = NoUpdate
    /\ event = "init"

\* What quality_checker_node returns for quality_check: a sub-record that
\* reports whether deeper analysis is needed.
QualityCheckerWrites == {DictValue("True"), DictValue("False")}

\* What resume_parser_node returns for candidates: one entry per resume.
CandidateWrites == {[i \in 1 .. k |-> i] : k \in 1 .. MaxDocs}

\* The updates a node other than quality_checker may return in state s.
\* resume_parser appends the parsed candidates; experience_analyzer_enhanced
\* derives one score per candidate; no node writes quality_check or
\* reanalysis_count, and no node of the retry span writes an accumulator.
NodeWrites(n, s) ==
    IF n = "resume_parser"
    THEN {[candidates |-> c] : c \in CandidateWrites}
    ELSE IF n = "experience_analyzer_enhanced"
         THEN {[experience_scores |-> [i \in 1 .. Len(s.candidates) |-> i]]}
         ELSE {NoUpdate}

\* The update quality_checker returns: quality_check only; reanalysis_count
\* is not part of it.
QualityCheckerUpdate(qc) == [quality_check |-> qc]

\* A node other than quality_checker runs, its update is merged and the
\* static edge is followed.
RunNode ==
    /\ phase = "node"
    /\ pc \in NodeSet \ {ConditionalSource}
    /\ \E u \in NodeWrites(pc, state) :
          /\ state' = Merge(state, u)
          /\ lastUpdate' = u
    /\ before' = state
    /\ event' = "ran"
    /\ visits' = [visits EXCEPT ![pc] = Bump(@)]
    /\ \E next \in Successors(pc) : pc' = next
    /\ UNCHANGED <<phase, outcome, tolerant, other, retries, allNeeds, decided>>

\* quality_checker runs and its update is merged; the conditional edge is
\* resolved next.
RunQualityChecker ==
    /\ phase = "node"
    /\ pc = ConditionalSource
    /\ \E qc \in QualityCheckerWrites :
          /\ state' = Merge(state, QualityCheckerUpdate(qc))
          /\ lastUpdate' = QualityCheckerUpdate(qc)
          /\ allNeeds' = (allNeeds /\ qc.needs_reanalysis = "True")
    /\ before' = state
    /\ event' = "ran"
    /\ visits' = [visits EXCEPT ![pc] = Bump(@)]
    /\ phase' = "branch"
    /\ UNCHANGED <<pc, outcome, tolerant, other, retries, decided>>

\* A conditional edge whose router also writes reanalysis_count + 1 into
\* the state when it returns "reanalyze".
RouteIncrementing ==
    /\ phase = "branch"
    /\ pc = "quality_checker"
    /\ LET result == should_reanalyze(state)
       IN  /\ outcome' = result
           /\ decided' = decided \cup {<<state, result>>}
           /\ IF result \in {"reanalyze", "continue"}
              THEN /\ pc' = IF result = "reanalyze"
                            THEN "experience_analyzer_enhanced"
                            ELSE "bias_detector"
                   /\ phase' = "node"
                   /\ retries' = IF result = "reanalyze"
                                 THEN Min(retries + 1, MaxVisits) ELSE retries
                   /\ state' = IF result = "reanalyze"
                               THEN [state EXCEPT !.reanalysis_count =
                                       IntValue(DictGet(@, IntValue(0)).val + 1)]
                               ELSE state
              ELSE /\ pc' = "__aborted__"
                   /\ UNCHANGED <<phase, retries, state>>
    /\ before' = state
    /\ lastUpdate' = << >>
    /\ event' = "routed"
    /\ UNCHANGED <<tolerant, other, visits, allNeeds>>

\* A conditional edge that goes on to bias_detector when the router raises.
RouteSwallowing ==
    /\ phase = "branch"
    /\ pc = "quality_checker"
    /\ LET result == should_reanalyze(state)
       IN  /\ outcome' = result
           /\ decided' = decided \cup {<<state, result>>}
           /\ pc' = IF result = "reanalyze"
                    THEN "experience_analyzer_enhanced"
                    ELSE "bias_detector"
           /\ phase' = "node"
           /\ retries' = IF result = "reanalyze"
                         THEN Min(retries + 1, MaxVisits) ELSE retries
    /\ before' = state
    /\ lastUpdate' = << >>
    /\ event' = "routed"
    /\ UNCHANGED <<state, tolerant, other, visits, allNeeds>>

\* The conditional edge: should_reanalyze is evaluated on the merged state
\* and returns a key of the path map; it returns no update, so the state is
\* left as it is.  An exception aborts the run.
Route ==
    /\ phase = "branch"
    /\ pc = ConditionalSource
    /\ LET result == should_reanalyze(state)
       IN  /\ outcome' = result
           /\ decided' = decided \cup {<<state, result>>}
           /\ IF result \in Outcomes
              THEN /\ pc' = PathMap[result]
                   /\ phase' = "node"
                   /\ retries' = IF result = "reanalyze" THEN Bump(retries) ELSE retries
              ELSE /\ pc' = ABORTED
                   /\ UNCHANGED <<phase, retries>>
    /\ before' = state
    /\ lastUpdate' = NoUpdate
    /\ event' = "routed"
    /\ UNCHANGED <<state, tolerant, other, visits, allNeeds>>

Next == RunNode \/ RunQualityChecker \/ Route

Spec == Init /\ [][Next]_vars

\* The engine keeps stepping while a step is possible.
LiveSpec == Spec /\ WF_vars(Next)

\* ----------------------------------------------------- the router harness

\* The list fields after one pass from the entry point to quality_checker.
ListsAfterPass ==
    {[experience_scores |-> c, candidates |-> c, errors |-> << >>,
      conversation_history |-> << >>] : c \in CandidateWrites}

\* should_reanalyze applied to every state the schema admits: the run stands
\* at the conditional edge after one pass, with quality_check and
\* reanalysis_count drawn from the values AgentState declares.
SchemaStates ==
    {MakeState(q, c, l) :
        q \in QualityCheckValues, c \in ReanalysisCountValues, l \in ListsAfterPass}

RouterInit ==
    /\ pc = ConditionalSource
    /\ phase = "branch"
    /\ state \in SchemaStates
    /\ outcome = "none"
    /\ tolerant = {}
    /\ other = NoRun
    /\ visits = [n \in NodeSet |->
                    IF \E i \in 1 .. Len(Nodes) :
                          /\ Nodes[i] = n
                          /\ \E j \in i .. Len(Nodes) : Nodes[j] = ConditionalSource
                    THEN 1 ELSE 0]
    /\ retries = 0
    /\ allNeeds = (state.quality_check.needs_reanalysis = "True")
    /\ decided = {}
    /\ before = state
    /\ lastUpdate = NoUpdate
    /\ event = "init"

RouterSpec == RouterInit /\ [][Next]_vars

\* ------------------------------------------- runs with any supplied counter

\* A run whose caller supplied any value the schema admits for
\* reanalysis_count.
CountInit ==
    /\ pc = EntryPoint
    /\ phase = "node"
    /\ state \in {MakeState(Absent, c, EmptyLists) : c \in ReanalysisCountValues}
    /\ outcome = "none"
    /\ tolerant = {}
    /\ other = NoRun
    /\ visits = [n \in NodeSet |-> 0]
    /\ retries = 0
    /\ allNeeds = TRUE
    /\ decided = {}
    /\ before = state
    /\ lastUpdate = NoUpdate
    /\ event = "init"

\* Runs from the entry point with any counter, and runs from the
\* conditional edge with any quality_check and counter; the engine keeps
\* stepping while a step is possible.
AnyCountSpec == (CountInit \/ RouterInit) /\ [][Next]_vars /\ WF_vars(Next)

\* ------------------------------------------------------------ node faults

\* Tolerated faults stop once errors holds this many entries.
MaxErrors == 3

\* The sets of nodes a build may declare collect-and-continue; every other
\* node is fail-fast.
ToleranceChoices ==
    { {},
      {"resume_parser", "scorer", "quality_checker"},
      {"education_verifier", "question_generator"} }

\* The entry recorded for a fault of node n: it identifies the stage.
ErrorEntry(n) == n

\* A run under one of the fault policies.
FaultInit ==
    /\ pc = EntryPoint
    /\ phase = "node"
    /\ state \in InitialStates
    /\ outcome = "none"
    /\ tolerant \in ToleranceChoices
    /\ other = NoRun
    /\ visits = [n \in NodeSet |-> 0]
    /\ retries = 0
    /\ allNeeds = TRUE
    /\ decided = {}
    /\ before = state
    /\ lastUpdate = NoUpdate
    /\ event = "init"

\* A collect-and-continue node fails: its update is skipped, one entry is
\* appended to errors and the node's successor is next (for quality_checker
\* the conditional edge).
TolerateFault ==
    /\ phase = "node"
    /\ pc \in NodeSet \cap tolerant
    /\ Len(state.errors) < MaxErrors
    /\ lastUpdate' = [errors |-> <<ErrorEntry(pc)>>]
    /\ state' = Merge(state, lastUpdate')
    /\ before' = state
    /\ event' = "tolerated"
    /\ visits' = [visits EXCEPT ![pc] = Bump(@)]
    /\ IF pc = ConditionalSource
       THEN /\ phase' = "branch"
            /\ pc' = pc
            /\ allNeeds' = (allNeeds /\ state.quality_check.needs_reanalysis = "True")
       ELSE /\ phase' = phase
            /\ \E next \in Successors(pc) : pc' = next
            /\ allNeeds' = allNeeds
    /\ UNCHANGED <<outcome, tolerant, other, retries, decided>>

\* A fail-fast node raises: the exception leaves the run, no update is
\* merged and no further node is invoked.
AbortOnFault ==
    /\ phase = "node"
    /\ pc \in NodeSet \ tolerant
    /\ pc' = ABORTED
    /\ before' = state
    /\ lastUpdate' = NoUpdate
    /\ event' = "aborted"
    /\ visits' = [visits EXCEPT ![pc] = Bump(@)]
    /\ UNCHANGED <<phase, state, outcome, tolerant, other, retries, allNeeds, decided>>

FaultNext == Next \/ TolerateFault \/ AbortOnFault

\* Runs with faults, from the entry point or from the conditional edge.
FaultSpec == (FaultInit \/ RouterInit) /\ [][FaultNext]_vars

CollectNext == Next \/ TolerateFault

\* Runs in which only collect-and-continue nodes fail; the engine keeps
\* stepping while a step is possible.
CollectLiveSpec == FaultInit /\ [][CollectNext]_vars /\ WF_vars(CollectNext)

\* ------------------------------------------------------ two invocations

\* Two invocations of the same compiled graph, each with its own state.
PairInit ==
    /\ pc = EntryPoint
    /\ phase = "node"
    /\ state \in InitialStates
    /\ outcome = "none"
    /\ tolerant = {}
    /\ other \in {[pc |-> EntryPoint, phase |-> "node", state |-> s, outcome |-> "none"] :
                    s \in InitialStates}
    /\ visits = [n \in NodeSet |-> 0]
    /\ retries = 0
    /\ allNeeds = TRUE
    /\ decided = {}
    /\ before = state
    /\ lastUpdate = NoUpdate
    /\ event = "init"

\* What a step of the second invocation leaves alone: everything of the
\* first.
FirstRunUnchanged ==
    UNCHANGED <<pc, phase, state, outcome, tolerant, visits, retries, allNeeds,
                decided, before, lastUpdate, event>>

\* The second invocation runs a node other than quality_checker.
OtherRunNode ==
    /\ other.phase = "node"
    /\ other.pc \in NodeSet \ {ConditionalSource}
    /\ \E u \in NodeWrites(other.pc, other.state) :
       \E next \in Successors(other.pc) :
          other' = [other EXCEPT !.state = Merge(@, u), !.pc = next]
    /\ FirstRunUnchanged

\* The second invocation runs quality_checker.
OtherRunQualityChecker ==
    /\ other.phase = "node"
    /\ other.pc = ConditionalSource
    /\ \E qc \in QualityCheckerWrites :
          other' = [other EXCEPT !.state = Merge(@, QualityCheckerUpdate(qc)),
                                 !.phase = "branch"]
    /\ FirstRunUnchanged

\* A conditional edge of the second invocation whose router reads the
\* state of the first invocation.
OtherRouteShared ==
    /\ other.phase = "branch"
    /\ other.pc = "quality_checker"
    /\ LET result == should_reanalyze(state)
       IN  other' = [other EXCEPT
                        !.outcome = result,
                        !.pc = IF result = "reanalyze"
                               THEN "experience_analyzer_enhanced"
                               ELSE IF result = "continue" THEN "bias_detector"
                               ELSE "__aborted__",
                        !.phase = IF result \in {"reanalyze", "continue"}
                                  THEN "node" ELSE @]
    /\ UNCHANGED <<pc, phase, state, outcome, tolerant, visits, retries, allNeeds,
                   decided, before, lastUpdate, event>>

\* The conditional edge of the second invocation: should_reanalyze is
\* evaluated on that invocation's own state.
OtherRoute ==
    /\ other.phase = "branch"
    /\ other.pc = ConditionalSource
    /\ LET result == should_reanalyze(other.state)
       IN  other' = [other EXCEPT
                        !.outcome = result,
                        !.pc = IF result \in Outcomes THEN PathMap[result] ELSE ABORTED,
                        !.phase = IF result \in Outcomes THEN "node" ELSE @]
    /\ FirstRunUnchanged

PairNext == Next \/ OtherRunNode \/ OtherRunQualityChecker \/ OtherRoute

\* Two invocations interleaved arbitrarily.
PairSpec == PairInit /\ [][PairNext]_vars

\* ------------------------------------------------------ the merge harness

\* Lists of at most MaxDocs entries, each entry 1 or 2.
ShortLists == UNION {[1 .. k -> {1, 2}] : k \in 0 .. MaxDocs}

\* The updates of the harness: any set of fields named, every list field
\* named holding the list l.
HarnessUpdates(l) ==
    {[f \in named |->
        IF f = "quality_check" THEN DictValue("False")
        ELSE IF f = "reanalysis_count" THEN IntValue(1)
        ELSE l] : named \in SUBSET FieldNames}

\* Merge applied to a current state and an update drawn from bounded sets:
\* every list field of the current state holds the same list.
MergeInit ==
    /\ pc = "__none__"
    /\ phase = "merge"
    /\ \E l \in ShortLists :
          state = MakeState(DictValue("True"), IntValue(0),
                      [experience_scores |-> l, candidates |-> l, errors |-> l,
                       conversation_history |-> l])
    /\ \E l \in ShortLists : lastUpdate \in HarnessUpdates(l)
    /\ outcome = "none"
    /\ tolerant = {}
    /\ other = NoRun
    /\ visits = [n \in NodeSet |-> 0]
    /\ retries = 0
    /\ allNeeds = TRUE
    /\ decided = {}
    /\ before = state
    /\ event = "init"

\* The pending update is merged into the state.
ApplyMerge ==
    /\ phase = "merge"
    /\ state' = Merge(state, lastUpdate)
    /\ before' = state
    /\ phase' = "merged"
    /\ event' = "merged"
    /\ UNCHANGED <<pc, outcome, tolerant, other, visits, retries, allNeeds,
                   decided, lastUpdate>>

MergeSpec == MergeInit /\ [][ApplyMerge]_vars

\* ------------------------------------------------------------ claim helpers

\* Position of a node in the declared order; END and ABORTED lie after all.
Pos(n) == IF n \in NodeSet
          THEN CHOOSE i \in 1 .. Len(Nodes) : Nodes[i] = n
          ELSE Len(Nodes) + 1

RetryTarget == "experience_analyzer_enhanced"

\* The nodes a retry runs again, and the nodes before the retry target.
RetrySpan == {n \in NodeSet : Pos(RetryTarget) <= Pos(n) /\ Pos(n) <= Pos(ConditionalSource)}
BeforeSpan == {n \in NodeSet : Pos(n) < Pos(RetryTarget)}

\* What the router reads as needs_reanalysis and as reanalysis_count from a
\* state whose fields are populated or missing.
NeedsReanalysis(s) == s.quality_check.needs_reanalysis = "True"
CountOf(s) == s.reanalysis_count.val

\* A router evaluation that returns "reanalyze" takes place in this step.
EmitsReanalyze == phase = "branch" /\ outcome' = "reanalyze" /\ phase' = "node"

\* ------------------------------------------------------------------ claims

\* C1. Retry bound: in a run where quality_check.needs_reanalysis is true at
\* every visit to quality_checker, the router emits "reanalyze" at most
\* (and in the end exactly) 2 times and the retry span is visited at most
\* (in the end exactly) 3 times, never looping a third time.
C1_RetryBound ==
    allNeeds =>
        /\ retries <= ReanalysisCeiling
        /\ \A n \in RetrySpan : visits[n] <= ReanalysisCeiling + 1
        /\ (pc = END => retries = ReanalysisCeiling)

\* C2. Liveness independent of stage discipline: every run eventually
\* reaches END, also when no node increments reanalysis_count while
\* needs_reanalysis stays true.
C2_EventuallyEnd == <>(pc = END)

\* C4. Every "reanalyze" outcome increments reanalysis_count by exactly one
\* as part of the router's own update, and reanalysis_count never decreases
\* within a run.
C4_RouterIncrements ==
    /\ [][EmitsReanalyze => CountOf(state') = CountOf(state) + 1]_vars
    /\ [][CountOf(state') >= CountOf(state)]_vars

\* C5. In the final state of a completed run reanalysis_count equals the
\* number of "reanalyze" outcomes the router emitted; a run with one retry
\* ends with reanalysis_count = 1.
C5_FinalCount == pc = END => CountOf(state) = retries

\* C3. Router decision function: on every state the router returns
\* "reanalyze" if and only if needs_reanalysis is true and
\* reanalysis_count < 2, returns "continue" in every other case, and
\* returns no third value.
C3_Decision ==
    \A d \in decided :
        LET s == d[1]
            retry == /\ NeedsReanalysis(s)
                     /\ s.reanalysis_count.tag # "None"
                     /\ CountOf(s) < ReanalysisCeiling
        IN  d[2] = IF retry THEN "reanalyze" ELSE "continue"

\* C6. The router is a pure function of the state: evaluating it leaves
\* every field of the state unchanged, and evaluations on equal states
\* return the same outcome.
C6_RouterPure ==
    /\ [][phase = "branch" => state' = state]_vars
    /\ [](\A d1, d2 \in decided : d1[1] = d2[1] => d1[2] = d2[2])

\* The router has been evaluated three times on the same state (two
\* retries and the evaluation after them).
C6_Witness ==
    /\ retries = 2
    /\ allNeeds
    /\ phase = "node"
    /\ pc = RetryTarget
    /\ Cardinality(decided) = 1

\* C7. Reading unpopulated fields never faults in the router: with
\* quality_check and/or reanalysis_count missing or None the router returns
\* an outcome and raises no error.
C7_NeverFaults == outcome \notin RouterErrors

\* C8. Every retry re-enters at experience_analyzer_enhanced: the nodes
\* experience_analyzer_enhanced, education_verifier, scorer, quality_checker
\* run again in that order (each has run once per retry, plus once if the
\* current pass is already past it), and the nodes before the retry target
\* run exactly once whatever the number of retries.
C8_RetryReentry ==
    /\ [](\A n \in RetrySpan :
            LET passed == Pos(pc) > Pos(n) \/ (pc = n /\ phase = "branch")
            IN  visits[n] = Min(retries + (IF passed THEN 1 ELSE 0), MaxVisits))
    /\ [](\A n \in BeforeSpan : visits[n] = IF Pos(pc) > Pos(n) THEN 1 ELSE 0)
    /\ [][EmitsReanalyze => pc' = RetryTarget]_vars
    /\ [][(pc \in RetrySpan /\ phase = "node" /\ pc' # pc)
            => pc' = Nodes[Pos(pc) + 1]]_vars

\* A run that retried twice and completed.
C8_Witness == pc = END /\ retries = 2

\* The nodes reachable from the set S along the edges E.
RECURSIVE ReachFrom(_, _)
ReachFrom(S, E) ==
    LET T == S \cup {e[2] : e \in {d \in E : d[1] \in S}}
    IN  IF T = S THEN S ELSE ReachFrom(T, E)

\* Some node reaches itself along E.
HasCycle(E) ==
    \E n \in NodeSet : n \in ReachFrom({e[2] : e \in {d \in E : d[1] = n}}, E)

RetryEdge == <<ConditionalSource, PathMap["reanalyze"]>>

\* C9. Graph well-formedness: exactly one entry stage (job_analyzer) and
\* one terminal marker (END), 14 registered stages each reachable from
\* job_analyzer, every edge endpoint a registered stage or END; a run is
\* therefore always at a registered stage or at END.
C9_WellFormed ==
    /\ EntryPoints = {"job_analyzer"}
    /\ EntryPoints \subseteq NodeSet
    /\ Len(Nodes) = 14
    /\ Cardinality(NodeSet) = 14
    /\ \A e \in AllEdges : e[1] \in NodeSet /\ e[2] \in NodeSet \cup {END}
    /\ \E e \in AllEdges : e[2] = END
    /\ NodeSet \cup {END} \subseteq ReachFrom(EntryPoints, AllEdges)
    /\ pc \in NodeSet \cup {END}

\* A completed run that has been through every registered stage.
C9_Witness == pc = END /\ \A n \in NodeSet : visits[n] >= 1

\* C10. The only cycle of the graph is the one through quality_checker's
\* "reanalyze" edge: without that edge the graph is acyclic, and every step
\* that goes back in the graph is a router evaluation made with
\* needs_reanalysis set and reanalysis_count < 2.
C10_OnlyCycle ==
    /\ [](HasCycle(AllEdges) /\ ~HasCycle(AllEdges \ {RetryEdge}))
    /\ [][Pos(pc') < Pos(pc)
            => /\ pc = ConditionalSource
               /\ phase = "branch"
               /\ <<pc, pc'>> = RetryEdge
               /\ NeedsReanalysis(state)
               /\ state.reanalysis_count.tag # "None"
               /\ CountOf(state) < ReanalysisCeiling]_vars

\* The cycle has been traversed from a state with reanalysis_count = 1.
C10_Witness ==
    /\ pc = RetryTarget
    /\ retries >= 1
    /\ state.reanalysis_count = IntValue(1)

C13_MergeSemantics ==
    event # "init" =>
        \A f \in FieldNames :
            state[f] =
                IF f \notin DOMAIN lastUpdate THEN before[f]
                ELSE IF f \in {"candidates", "errors", "conversation_history"}
                     THEN before[f] \o lastUpdate[f]
                     ELSE lastUpdate[f]

\* A two-entry list has been appended to the same two entries (duplicates
\* kept, in order) while an unnamed field kept its value and an overwrite
\* field was replaced.
C13_Witness ==
    /\ event = "merged"
    /\ before.errors = <<2, 1>>
    /\ DOMAIN lastUpdate = {"errors", "experience_scores", "quality_check"}
    /\ state.errors = <<2, 1, 2, 1>>
    /\ state.experience_scores = <<2, 1>>
    /\ state.candidates = <<2, 1>>
    /\ state.quality_check = DictValue("False")

\* s is a prefix of t.
IsPrefix(s, t) == Len(s) <= Len(t) /\ SubSeq(t, 1, Len(s)) = s

\* C12. Accumulator monotonicity: for candidates, errors and
\* conversation_history the length after any step is at least the length
\* before, and the previous contents remain as a prefix.
C12_AccumulatorsGrow ==
    [][/\ Len(state'.candidates) >= Len(state.candidates)
       /\ Len(state'.errors) >= Len(state.errors)
       /\ Len(state'.conversation_history) >= Len(state.conversation_history)
       /\ IsPrefix(state.candidates, state'.candidates)
       /\ IsPrefix(state.errors, state'.errors)
       /\ IsPrefix(state.conversation_history, state'.conversation_history)]_vars

\* A second entry has been appended to a non-empty errors list.
C12_Witness ==
    /\ event = "tolerated"
    /\ Len(before.errors) = 1
    /\ Len(state.errors) = 2
    /\ state.errors[1] # state.errors[2]
    /\ Len(state.candidates) = 2

C15_FailFast ==
    /\ [](outcome \in RouterErrors => pc = ABORTED)
    /\ [](event = "aborted" => pc = ABORTED)
    /\ [][pc = ABORTED => (pc' = ABORTED /\ visits' = visits /\ state' = state)]_vars
    /\ [][(event' = "aborted" \/ outcome' \in RouterErrors)
            => (pc' = ABORTED /\ state' = state)]_vars

\* The router raised TypeError on reanalysis_count = None and the run is
\* aborted before bias_detector.
C15_Witness ==
    /\ outcome = "TypeError"
    /\ pc = ABORTED
    /\ visits["bias_detector"] = 0

\* C16. Strictly sequential execution: every node has exactly one resolved
\* successor (one static edge, or for quality_checker no static edge and
\* exactly one of the two router outcomes), so each step runs exactly one
\* node, and the next node sees the state with the previous update merged.
C16_Sequential ==
    /\ [](\A n \in NodeSet \ {ConditionalSource} : Cardinality(Successors(n)) = 1)
    /\ [](Successors(ConditionalSource) = {})
    /\ [](Cardinality({PathMap[o] : o \in Outcomes}) = 2)
    /\ [][phase = "branch"
            => (outcome' \in Outcomes /\ pc' = PathMap[outcome'] /\ visits' = visits)]_vars
    /\ [][phase = "node"
            => /\ Cardinality({n \in NodeSet : visits'[n] # visits[n]}) <= 1
               /\ \A n \in NodeSet : visits'[n] # visits[n] => n = pc
               /\ state' = Merge(state, lastUpdate')]_vars

\* A completed run in which both router outcomes were resolved.
C16_Witness == pc = END /\ retries = 1 /\ outcome = "continue"

\* The nodes after the decision node.
AfterSpan == {n \in NodeSet : Pos(n) > Pos(ConditionalSource)}

\* C18. No re-entry after proceeding: once the router has emitted
\* "continue", bias_detector, salary_estimator, ats_scorer,
\* report_generator, question_generator each run exactly once in that
\* order and the run reaches END; no span node and no router evaluation
\* occurs after bias_detector has started; bias_detector never starts
\* before a "continue" outcome.
C18_NoReentry ==
    /\ [](\A n \in AfterSpan :
            visits[n] = IF outcome = "continue" /\ Pos(pc) > Pos(n) THEN 1 ELSE 0)
    /\ [](Pos(pc) > Pos(ConditionalSource) => outcome = "continue")
    /\ [][outcome = "continue"
            => /\ outcome' = "continue"
               /\ decided' = decided
               /\ retries' = retries
               /\ \A n \in RetrySpan : visits'[n] = visits[n]
               /\ pc' # pc => pc' = IF Pos(pc) = Len(Nodes) THEN END
                                    ELSE Nodes[Pos(pc) + 1]]_vars
    /\ [][(outcome # "continue" /\ outcome' = "continue") => pc' = "bias_detector"]_vars
    /\ [](outcome = "continue" => <>(pc = END))

\* A run that retried, then proceeded and completed.
C18_Witness ==
    /\ pc = END
    /\ outcome = "continue"
    /\ retries = 2
    /\ \A n \in AfterSpan : visits[n] = 1

\* The router's input needs no re-analysis: quality_check is missing, or a
\* dict whose needs_reanalysis is missing or not true.
NoReanalysisNeeded(s) ==
    /\ s.quality_check.tag \in {"absent", "dict"}
    /\ s.quality_check.needs_reanalysis # "True"

\* C19. Happy path: when needs_reanalysis is false (or quality_check is
\* absent) at the first visit to quality_checker, the router emits
\* "continue" whatever the value of reanalysis_count, and the run visits
\* each of the 14 stages exactly once in the declared order before END.
C19_HappyPath ==
    /\ [](\A d \in decided : NoReanalysisNeeded(d[1]) => d[2] = "continue")
    /\ [][(phase = "branch" /\ retries = 0 /\ NoReanalysisNeeded(state))
            => (outcome' = "continue" /\ pc' = "bias_detector" /\ retries' = 0)]_vars
    /\ []((retries = 0 /\ pc # ABORTED) =>
            \A n \in NodeSet :
                visits[n] = IF Pos(pc) > Pos(n) \/ (pc = n /\ phase = "branch")
                            THEN 1 ELSE 0)
    /\ [][(retries' = 0 /\ pc \in NodeSet /\ pc' # pc /\ pc' # ABORTED)
            => pc' = IF Pos(pc) = Len(Nodes) THEN END ELSE Nodes[Pos(pc) + 1]]_vars
    /\ []((phase = "branch" /\ retries = 0 /\ NoReanalysisNeeded(state))
            => <>(pc = END /\ retries = 0 /\ \A n \in NodeSet : visits[n] = 1))

\* A run from the entry point with reanalysis_count = None that found
\* needs_reanalysis false and completed with every stage run once.
C19_Witness ==
    /\ pc = END
    /\ state.reanalysis_count = None
    /\ retries = 0
    /\ visits["job_analyzer"] = 1
    /\ \A n \in NodeSet : visits[n] = 1
    /\ event = "ran"

\* The router outcome a state calls for, read from that state alone.
OutcomeFor(s) ==
    IF NeedsReanalysis(s) /\ CountOf(s) < ReanalysisCeiling
    THEN "reanalyze" ELSE "continue"

\* C17. Isolation of concurrent invocations: with two runs interleaved
\* arbitrarily, a step of one run leaves the other run's state container,
\* position and outcome unchanged, and each run's router outcome, next
\* stage and reanalysis_count follow from its own state alone.
C17_Isolation ==
    /\ [][other' # other
            => (state' = state /\ pc' = pc /\ phase' = phase /\ outcome' = outcome
                /\ visits' = visits /\ retries' = retries)]_vars
    /\ [][(state' # state \/ pc' # pc \/ phase' # phase \/ outcome' # outcome)
            => other' = other]_vars
    /\ [][phase = "branch" /\ phase' = "node"
            => (outcome' = OutcomeFor(state) /\ pc' = PathMap[OutcomeFor(state)])]_vars
    /\ [][other.phase = "branch" /\ other'.phase = "node"
            => /\ other'.outcome = OutcomeFor(other.state)
               /\ other'.pc = PathMap[OutcomeFor(other.state)]]_vars
    /\ [][other'.pc # other.pc => <<other.pc, other'.pc>> \in AllEdges]_vars
    /\ [][/\ state'.reanalysis_count = state.reanalysis_count
          /\ other'.state.reanalysis_count = other.state.reanalysis_count]_vars

\* The first run is retrying while the second, started with another
\* counter value and holding another quality_check, has completed.
C17_Witness ==
    /\ pc = RetryTarget
    /\ retries = 1
    /\ other.pc = END
    /\ other.outcome = "continue"
    /\ other.state.quality_check # state.quality_check
    /\ other.state.reanalysis_count # state.reanalysis_count
    /\ other.state.candidates # state.candidates

====
